---- MODULE Spec2Model ----
(***************************************************************************)
(* A state-machine model of scopehal's Waveform.h: WaveformBase and        *)
(* Waveform<S>, their lifecycle operations over the three                  *)
(* AcceleratorBuffers m_offsets, m_durations and m_samples, and the        *)
(* producer steps (direct writes, metadata, revision increment) that the   *)
(* header leaves to its callers.                                           *)
(*                                                                         *)
(* AcceleratorBuffer.h is not part of the sources at hand: the buffer      *)
(* primitive (the Buf... operators) is modelled from the contract the      *)
(* specification gives for it (section 4.1).                               *)
(***************************************************************************)
EXTENDS Integers, Sequences, FiniteSets, TLC

\* Largest buffer length the model resizes to.
MaxLen == 2

\* Width, in bits, of the modelled revision counter (uint64_t in the source,
\* scaled down so that the counter's wrap-around is reachable).
RevisionBits == 2

RevisionModulus == 2 ^ RevisionBits

Sizes == 0 .. MaxLen

\* The value of an element no write has defined (fresh storage after a
\* resize, or a read past the end of the source of a copy).  It stands for
\* whatever the allocation holds and differs from every written value.
Unspecified == -1

WAVEFORM_CLIPPING == 1

(***************************************************************************)
(* AcceleratorBuffer<T>: one sequence with a CPU-visible and a GPU-visible *)
(* copy and a residency state.                                             *)
(***************************************************************************)
BufferStates == {"Uninitialized", "CpuValid", "GpuValid", "BothValid"}

NewBuffer == [size |-> 0, cpu |-> << >>, gpu |-> << >>, state |-> "Uninitialized"]

CpuValidIn(b) == b.state \in {"CpuValid", "BothValid"}

GpuValidIn(b) == b.state \in {"GpuValid", "BothValid"}

StateOf(cpuValid, gpuValid) ==
    IF cpuValid
    THEN (IF gpuValid THEN "BothValid" ELSE "CpuValid")
    ELSE (IF gpuValid THEN "GpuValid" ELSE "Uninitialized")

\* The first n elements of s; elements past the end of s are unspecified.
Take(s, n) == [i \in 1 .. n |-> IF i <= Len(s) THEN s[i] ELSE Unspecified]

AllUnspecified(n) == [i \in 1 .. n |-> Unspecified]

\* prepareForCpuAccess: make the CPU copy valid, transferring GPU -> CPU when
\* the CPU copy is stale and the GPU copy is valid; GPU validity untouched.
BufPrepareForCpuAccess(b) ==
    IF CpuValidIn(b)
    THEN b
    ELSE [b EXCEPT !.cpu = IF GpuValidIn(b) THEN b.gpu ELSE b.cpu,
                   !.state = StateOf(TRUE, GpuValidIn(b))]

BufPrepareForGpuAccess(b) ==
    IF GpuValidIn(b)
    THEN b
    ELSE [b EXCEPT !.gpu = IF CpuValidIn(b) THEN b.cpu ELSE b.gpu,
                   !.state = StateOf(CpuValidIn(b), TRUE)]

\* markModifiedFromCpu: the CPU copy is authoritative, the GPU copy stale;
\* nothing is copied.
BufMarkModifiedFromCpu(b) == [b EXCEPT !.state = "CpuValid"]

BufMarkModifiedFromGpu(b) == [b EXCEPT !.state = "GpuValid"]

\* resize(n): the length becomes n.  Elements past the prior length are
\* unspecified.  The contract leaves two things to the implementation of the
\* buffer: whether the elements below the prior length survive (keep), and
\* whether the residency state is kept when kept contents stay valid in both
\* domains (proved) or is reset to Uninitialized in every case.
BufResizeTo(b, n, keep, proved) ==
    [size  |-> n,
     cpu   |-> IF keep THEN Take(b.cpu, n) ELSE AllUnspecified(n),
     gpu   |-> IF keep THEN Take(b.gpu, n) ELSE AllUnspecified(n),
     state |-> IF keep /\ proved /\ b.state = "BothValid"
               THEN "BothValid" ELSE "Uninitialized"]

BufferImplementations == [keep : BOOLEAN, proved : BOOLEAN]

\* copyFrom(other): overwrite this buffer's contents with other's for this
\* buffer's current length.  Reading past the end of a shorter source yields
\* unspecified elements.
BufCopyFrom(b, other) ==
    [size  |-> b.size,
     cpu   |-> Take(other.cpu, b.size),
     gpu   |-> Take(other.gpu, b.size),
     state |-> other.state]

(***************************************************************************)
(* Contents a producer writes.                                             *)
(***************************************************************************)
TimestampPatterns == {"dense", "sparse"}

PatternOffsets(p, n) ==
    [i \in 1 .. n |-> IF p = "dense" THEN i - 1 ELSE 5 * (i - 1)]

PatternDurations(p, n) ==
    [i \in 1 .. n |-> IF p = "dense" THEN 1 ELSE 5]

SamplePatterns == {"ones", "ramp"}

PatternSamples(p, n) ==
    [i \in 1 .. n |-> IF p = "ones" THEN 1 ELSE i]

(***************************************************************************)
(* State.                                                                  *)
(***************************************************************************)
VARIABLES
    kind,                \* "base": a WaveformBase; "sampled": a Waveform<S>
    m_timescale,
    m_startTimestamp,
    m_startFemtoseconds,
    m_triggerPhase,
    m_densePacked,
    m_flags,
    m_revision,
    m_offsets,
    m_durations,
    m_samples,           \* NewBuffer, never touched, when kind = "base"
    rhs,                 \* the waveform CopyTimestamps reads (const)
    impl,                \* what the buffer implementation does where its
                         \* contract leaves a choice (fixed for a run)
    lastOp,              \* history: the last operation and its argument
    trip,                \* history: progress of a write/mark/prepare round trip
    pc,                  \* the producer's position in the mutation it runs
    cur,                 \* the mutation the producer started last
    cons                 \* a consumer: what it cached and what it found

\* resize(n) and clear() (resize to 0) of the buffer implementation in use.
BufResize(b, n) == BufResizeTo(b, n, impl.keep, impl.proved)

BufClear(b) == BufResize(b, 0)

buffers == <<m_offsets, m_durations, m_samples>>

metadata == <<m_timescale, m_startTimestamp, m_startFemtoseconds,
              m_triggerPhase, m_densePacked, m_flags, m_revision>>

\* The producer's protocol position and the consumer that watches it.
session == <<pc, cur, cons>>

vars == <<kind, impl, metadata, buffers, rhs, lastOp, trip, session>>

NoTrip == [group |-> "none", stage |-> 0, pattern |-> "none"]

\* A source waveform another stage has filled: resized to n, timestamps
\* written on the CPU and marked modified from the CPU.
SourceWaveform(p, n) ==
    [m_offsets   |-> [size |-> n, cpu |-> PatternOffsets(p, n),
                      gpu |-> AllUnspecified(n), state |-> "CpuValid"],
     m_durations |-> [size |-> n, cpu |-> PatternDurations(p, n),
                      gpu |-> AllUnspecified(n), state |-> "CpuValid"],
     m_timescale |-> 250, m_startTimestamp |-> 7, m_startFemtoseconds |-> 8,
     m_triggerPhase |-> 9, m_densePacked |-> (p = "dense"), m_flags |-> 0,
     m_revision |-> RevisionModulus - 1]

SourceWaveforms == {SourceWaveform(p, n) : p \in TimestampPatterns, n \in Sizes}

Op(name, arg) == [op |-> name, arg |-> arg, signalled |-> FALSE]

\* Before the producer's first mutation: nothing written, length 0.
NoMutation == [n |-> 0, pattern |-> "dense"]

\* What a consumer reads on the CPU: the three lengths and contents.
ConsumerView ==
    [lengths   |-> <<m_offsets.size, m_durations.size, m_samples.size>>,
     offsets   |-> BufPrepareForCpuAccess(m_offsets).cpu,
     durations |-> BufPrepareForCpuAccess(m_durations).cpu,
     samples   |-> BufPrepareForCpuAccess(m_samples).cpu]

\* A consumer that has processed the freshly constructed waveform: it holds
\* the revision it cached, the view its cached results were computed from,
\* and what its last steps found.
\*   stage      "idle", "observed" (saw a new revision, has not read yet),
\*              "read" (read the buffers), "skipped" (same revision: reused
\*              its cached results)
\*   overlapped a mutation was in progress during its last steps
\*   quiet      no mutation was in progress while it cached
\*   complete   what it read was the whole, marked mutation
\*   stale      what it reused differs from what the waveform holds
\*   since      revision increments since it cached (saturating)
FreshConsumer ==
    [cached |-> 0, view |-> ConsumerView, stage |-> "idle", overlapped |-> FALSE,
     quiet |-> TRUE, complete |-> FALSE, stale |-> FALSE, since |-> 0]

(***************************************************************************)
(* Construction.                                                           *)
(***************************************************************************)
WaveformBase_ctor ==
    /\ m_timescale = 0
    /\ m_startTimestamp = 0
    /\ m_startFemtoseconds = 0
    /\ m_triggerPhase = 0
    /\ m_densePacked = FALSE
    /\ m_flags = 0
    /\ m_revision = 0
    /\ m_offsets = BufPrepareForCpuAccess(NewBuffer)
    /\ m_durations = BufPrepareForCpuAccess(NewBuffer)

\* The access hints set by Waveform() steer allocation only.
Waveform_ctor ==
    /\ WaveformBase_ctor
    /\ m_samples = NewBuffer

Init ==
    /\ kind \in {"base", "sampled"}
    /\ Waveform_ctor
    /\ rhs \in SourceWaveforms
    /\ impl \in BufferImplementations
    /\ lastOp = Op("ctor", 0)
    /\ trip = NoTrip
    /\ pc = "idle"
    /\ cur = NoMutation
    /\ cons = FreshConsumer

(***************************************************************************)
(* WaveformBase: the operations of the base class.  A WaveformBase has no  *)
(* sample buffer.                                                          *)
(***************************************************************************)
\* lastOp.arg of clear() records the length before the call.
WaveformBase_clear ==
    /\ m_offsets' = BufClear(m_offsets)
    /\ m_durations' = BufClear(m_durations)
    /\ lastOp' = Op("clear", m_offsets.size)
    /\ UNCHANGED <<m_samples, metadata, rhs>>

WaveformBase_Resize(size) ==
    /\ m_offsets' = BufResize(m_offsets, size)
    /\ m_durations' = BufResize(m_durations, size)
    /\ lastOp' = Op("Resize", size)
    /\ UNCHANGED <<m_samples, metadata, rhs>>

WaveformBase_PrepareForCpuAccess ==
    /\ m_offsets' = BufPrepareForCpuAccess(m_offsets)
    /\ m_durations' = BufPrepareForCpuAccess(m_durations)
    /\ lastOp' = Op("PrepareForCpuAccess", 0)
    /\ UNCHANGED <<m_samples, metadata, rhs>>

WaveformBase_PrepareForGpuAccess ==
    /\ m_offsets' = BufPrepareForGpuAccess(m_offsets)
    /\ m_durations' = BufPrepareForGpuAccess(m_durations)
    /\ lastOp' = Op("PrepareForGpuAccess", 0)
    /\ UNCHANGED <<m_samples, metadata, rhs>>

\* Mutant: the durations are copied from the source's offsets.
CopyTimestamps_OffsetsTwice ==
    /\ m_offsets' = BufCopyFrom(m_offsets, rhs.m_offsets)
    /\ m_durations' = BufCopyFrom(m_durations, rhs.m_offsets)
    /\ lastOp' = Op("CopyTimestamps", 0)
    /\ UNCHANGED <<m_samples, metadata, rhs>>

\* Mutant: the two lengths are compared first and a mismatch is signalled
\* instead of copying.
CopyTimestamps_Checked ==
    /\ IF m_offsets.size = rhs.m_offsets.size
       THEN /\ m_offsets' = BufCopyFrom(m_offsets, rhs.m_offsets)
            /\ m_durations' = BufCopyFrom(m_durations, rhs.m_durations)
            /\ lastOp' = Op("CopyTimestamps", 0)
       ELSE /\ lastOp' = [Op("CopyTimestamps", 0) EXCEPT !.signalled = TRUE]
            /\ UNCHANGED <<m_offsets, m_durations>>
    /\ UNCHANGED <<m_samples, metadata, rhs>>

\* Mutant: the copy counts as a mutation and increments the revision.
CopyTimestamps_CopiesMetadata ==
    /\ m_offsets' = BufCopyFrom(m_offsets, rhs.m_offsets)
    /\ m_durations' = BufCopyFrom(m_durations, rhs.m_durations)
    /\ m_timescale' = rhs.m_timescale
    /\ m_startTimestamp' = rhs.m_startTimestamp
    /\ m_startFemtoseconds' = rhs.m_startFemtoseconds
    /\ m_triggerPhase' = rhs.m_triggerPhase
    /\ m_densePacked' = rhs.m_densePacked
    /\ lastOp' = Op("CopyTimestamps", 0)
    /\ UNCHANGED <<m_samples, m_flags, m_revision, rhs>>

CopyTimestamps_BumpsRevision ==
    /\ m_offsets' = BufCopyFrom(m_offsets, rhs.m_offsets)
    /\ m_durations' = BufCopyFrom(m_durations, rhs.m_durations)
    /\ m_revision' = (m_revision + 1) % RevisionModulus
    /\ lastOp' = Op("CopyTimestamps", 0)
    /\ UNCHANGED <<m_samples, m_timescale, m_startTimestamp, m_startFemtoseconds,
                   m_triggerPhase, m_densePacked, m_flags, rhs>>

\* Not virtual: the same code runs for a WaveformBase and a Waveform<S>.
\* There is no test of the two lengths and nothing is signalled.
CopyTimestamps ==
    /\ m_offsets' = BufCopyFrom(m_offsets, rhs.m_offsets)
    /\ m_durations' = BufCopyFrom(m_durations, rhs.m_durations)
    /\ lastOp' = Op("CopyTimestamps", 0)
    /\ UNCHANGED <<m_samples, metadata, rhs>>

\* The four Mark... methods of the base class have empty bodies.
WaveformBase_MarkSamplesModifiedFromCpu ==
    /\ lastOp' = Op("MarkSamplesModifiedFromCpu", 0)
    /\ UNCHANGED <<buffers, metadata, rhs>>

WaveformBase_MarkSamplesModifiedFromGpu ==
    /\ lastOp' = Op("MarkSamplesModifiedFromGpu", 0)
    /\ UNCHANGED <<buffers, metadata, rhs>>

WaveformBase_MarkTimestampsModifiedFromCpu ==
    /\ lastOp' = Op("MarkTimestampsModifiedFromCpu", 0)
    /\ UNCHANGED <<buffers, metadata, rhs>>

WaveformBase_MarkTimestampsModifiedFromGpu ==
    /\ lastOp' = Op("MarkTimestampsModifiedFromGpu", 0)
    /\ UNCHANGED <<buffers, metadata, rhs>>

(***************************************************************************)
(* Waveform<S>: the overrides of the sample-bearing class.                 *)
(***************************************************************************)
\* Mutant: the override forgets the sample buffer.
Waveform_Resize_SkipsSamples(size) ==
    /\ m_offsets' = BufResize(m_offsets, size)
    /\ m_durations' = BufResize(m_durations, size)
    /\ lastOp' = Op("Resize", size)
    /\ UNCHANGED <<m_samples, metadata, rhs>>

Waveform_Resize_BumpsRevision(size) ==
    /\ m_offsets' = BufResize(m_offsets, size)
    /\ m_durations' = BufResize(m_durations, size)
    /\ m_samples' = BufResize(m_samples, size)
    /\ m_revision' = (m_revision + 1) % RevisionModulus
    /\ lastOp' = Op("Resize", size)
    /\ UNCHANGED <<m_timescale, m_startTimestamp, m_startFemtoseconds,
                   m_triggerPhase, m_densePacked, m_flags, rhs>>

Waveform_Resize(size) ==
    /\ m_offsets' = BufResize(m_offsets, size)
    /\ m_durations' = BufResize(m_durations, size)
    /\ m_samples' = BufResize(m_samples, size)
    /\ lastOp' = Op("Resize", size)
    /\ UNCHANGED <<metadata, rhs>>

\* Mutant: the sample buffer is not cleared.
Waveform_clear_KeepsSamples ==
    /\ m_offsets' = BufClear(m_offsets)
    /\ m_durations' = BufClear(m_durations)
    /\ lastOp' = Op("clear", m_offsets.size)
    /\ UNCHANGED <<m_samples, metadata, rhs>>

\* Mutant: clearing also resets the revision counter.
Waveform_clear_ResetsRevision ==
    /\ m_offsets' = BufClear(m_offsets)
    /\ m_durations' = BufClear(m_durations)
    /\ m_samples' = BufClear(m_samples)
    /\ m_revision' = 0
    /\ lastOp' = Op("clear", m_offsets.size)
    /\ UNCHANGED <<m_timescale, m_startTimestamp, m_startFemtoseconds,
                   m_triggerPhase, m_densePacked, m_flags, rhs>>

Waveform_clear ==
    /\ m_offsets' = BufClear(m_offsets)
    /\ m_durations' = BufClear(m_durations)
    /\ m_samples' = BufClear(m_samples)
    /\ lastOp' = Op("clear", m_offsets.size)
    /\ UNCHANGED <<metadata, rhs>>

\* Mutant: the override is missing, so only the timestamps are prepared.
Waveform_PrepareForCpuAccess_TimestampsOnly ==
    /\ m_offsets' = BufPrepareForCpuAccess(m_offsets)
    /\ m_durations' = BufPrepareForCpuAccess(m_durations)
    /\ lastOp' = Op("PrepareForCpuAccess", 0)
    /\ UNCHANGED <<m_samples, metadata, rhs>>

Waveform_PrepareForCpuAccess ==
    /\ m_offsets' = BufPrepareForCpuAccess(m_offsets)
    /\ m_durations' = BufPrepareForCpuAccess(m_durations)
    /\ m_samples' = BufPrepareForCpuAccess(m_samples)
    /\ lastOp' = Op("PrepareForCpuAccess", 0)
    /\ UNCHANGED <<metadata, rhs>>

Waveform_PrepareForGpuAccess ==
    /\ m_offsets' = BufPrepareForGpuAccess(m_offsets)
    /\ m_durations' = BufPrepareForGpuAccess(m_durations)
    /\ m_samples' = BufPrepareForGpuAccess(m_samples)
    /\ lastOp' = Op("PrepareForGpuAccess", 0)
    /\ UNCHANGED <<metadata, rhs>>

\* Mutant: only the offsets are marked.
Waveform_MarkTimestampsModifiedFromCpu_OffsetsOnly ==
    /\ m_offsets' = BufMarkModifiedFromCpu(m_offsets)
    /\ lastOp' = Op("MarkTimestampsModifiedFromCpu", 0)
    /\ UNCHANGED <<m_durations, m_samples, metadata, rhs>>

Waveform_MarkTimestampsModifiedFromCpu ==
    /\ m_offsets' = BufMarkModifiedFromCpu(m_offsets)
    /\ m_durations' = BufMarkModifiedFromCpu(m_durations)
    /\ lastOp' = Op("MarkTimestampsModifiedFromCpu", 0)
    /\ UNCHANGED <<m_samples, metadata, rhs>>

Waveform_MarkTimestampsModifiedFromGpu ==
    /\ m_offsets' = BufMarkModifiedFromGpu(m_offsets)
    /\ m_durations' = BufMarkModifiedFromGpu(m_durations)
    /\ lastOp' = Op("MarkTimestampsModifiedFromGpu", 0)
    /\ UNCHANGED <<m_samples, metadata, rhs>>

\* Mutant: the timestamps are marked along with the samples.
Waveform_MarkSamplesModifiedFromCpu_AlsoTimestamps ==
    /\ m_offsets' = BufMarkModifiedFromCpu(m_offsets)
    /\ m_durations' = BufMarkModifiedFromCpu(m_durations)
    /\ m_samples' = BufMarkModifiedFromCpu(m_samples)
    /\ lastOp' = Op("MarkSamplesModifiedFromCpu", 0)
    /\ UNCHANGED <<metadata, rhs>>

Waveform_MarkSamplesModifiedFromCpu ==
    /\ m_samples' = BufMarkModifiedFromCpu(m_samples)
    /\ lastOp' = Op("MarkSamplesModifiedFromCpu", 0)
    /\ UNCHANGED <<m_offsets, m_durations, metadata, rhs>>

Waveform_MarkSamplesModifiedFromGpu ==
    /\ m_samples' = BufMarkModifiedFromGpu(m_samples)
    /\ lastOp' = Op("MarkSamplesModifiedFromGpu", 0)
    /\ UNCHANGED <<m_offsets, m_durations, metadata, rhs>>

(***************************************************************************)
(* The operations as a caller invokes them: virtual dispatch on the kind   *)
(* of the object.                                                          *)
(***************************************************************************)
Resize(size) ==
    /\ IF kind = "sampled" THEN Waveform_Resize(size) ELSE WaveformBase_Resize(size)
    /\ UNCHANGED <<kind, impl>>

clear ==
    /\ IF kind = "sampled" THEN Waveform_clear ELSE WaveformBase_clear
    /\ UNCHANGED <<kind, impl>>

PrepareForCpuAccess ==
    /\ IF kind = "sampled" THEN Waveform_PrepareForCpuAccess
                           ELSE WaveformBase_PrepareForCpuAccess
    /\ UNCHANGED <<kind, impl>>

PrepareForGpuAccess ==
    /\ IF kind = "sampled" THEN Waveform_PrepareForGpuAccess
                           ELSE WaveformBase_PrepareForGpuAccess
    /\ UNCHANGED <<kind, impl>>

MarkTimestampsModifiedFromCpu ==
    /\ IF kind = "sampled" THEN Waveform_MarkTimestampsModifiedFromCpu
                           ELSE WaveformBase_MarkTimestampsModifiedFromCpu
    /\ UNCHANGED <<kind, impl>>

MarkTimestampsModifiedFromGpu ==
    /\ IF kind = "sampled" THEN Waveform_MarkTimestampsModifiedFromGpu
                           ELSE WaveformBase_MarkTimestampsModifiedFromGpu
    /\ UNCHANGED <<kind, impl>>

MarkSamplesModifiedFromCpu ==
    /\ IF kind = "sampled" THEN Waveform_MarkSamplesModifiedFromCpu
                           ELSE WaveformBase_MarkSamplesModifiedFromCpu
    /\ UNCHANGED <<kind, impl>>

MarkSamplesModifiedFromGpu ==
    /\ IF kind = "sampled" THEN Waveform_MarkSamplesModifiedFromGpu
                           ELSE WaveformBase_MarkSamplesModifiedFromGpu
    /\ UNCHANGED <<kind, impl>>

CopyTimestampsCall ==
    /\ CopyTimestamps
    /\ UNCHANGED <<kind, impl>>

(***************************************************************************)
(* The producer: direct writes through the public buffers and fields.      *)
(***************************************************************************)
Domains == {"cpu", "gpu"}

WriteTo(b, domain, contents) ==
    IF domain = "cpu" THEN [b EXCEPT !.cpu = contents] ELSE [b EXCEPT !.gpu = contents]

\* Overwrite the whole range of offsets and durations in one domain.
ProducerWriteTimestamps(p, domain) ==
    /\ m_offsets.size > 0
    /\ m_offsets' = WriteTo(m_offsets, domain, PatternOffsets(p, m_offsets.size))
    /\ m_durations' = WriteTo(m_durations, domain, PatternDurations(p, m_durations.size))
    /\ lastOp' = Op("WriteTimestamps", 0)
    /\ UNCHANGED <<m_samples, metadata, rhs, kind, impl>>

ProducerWriteSamples(p, domain) ==
    /\ kind = "sampled"
    /\ m_samples.size > 0
    /\ m_samples' = WriteTo(m_samples, domain, PatternSamples(p, m_samples.size))
    /\ lastOp' = Op("WriteSamples", 0)
    /\ UNCHANGED <<m_offsets, m_durations, metadata, rhs, kind, impl>>

\* The acquisition's header.
ProducerSetMetadata ==
    /\ m_timescale = 0
    /\ m_timescale' = 100
    /\ m_startTimestamp' = 1
    /\ m_startFemtoseconds' = 2
    /\ m_triggerPhase' = 0 - 3
    /\ m_flags' = WAVEFORM_CLIPPING
    /\ lastOp' = Op("SetMetadata", 0)
    /\ UNCHANGED <<m_densePacked, m_revision, buffers, rhs, kind, impl>>

\* The public layout flag, set or cleared by the producer.
ProducerSetDensePacked ==
    /\ m_densePacked' = ~m_densePacked
    /\ lastOp' = Op("SetDensePacked", 0)
    /\ UNCHANGED <<m_timescale, m_startTimestamp, m_startFemtoseconds,
                   m_triggerPhase, m_flags, m_revision, buffers, rhs, kind, impl>>

\* m_revision++ on the unsigned counter.
ProducerPublish ==
    /\ m_revision' = (m_revision + 1) % RevisionModulus
    /\ lastOp' = Op("Publish", 0)
    /\ UNCHANGED <<m_timescale, m_startTimestamp, m_startFemtoseconds,
                   m_triggerPhase, m_densePacked, m_flags, buffers, rhs, kind, impl>>

(***************************************************************************)
(* Specifications.                                                         *)
(***************************************************************************)
\* Any sequence of lifecycle operations and of CPU-side writes of a producer.
Next ==
    \/ (\E size \in Sizes : Resize(size)) /\ UNCHANGED <<trip, session>>
    \/ clear /\ UNCHANGED <<trip, session>>
    \/ CopyTimestampsCall /\ UNCHANGED <<trip, session>>
    \/ PrepareForCpuAccess /\ UNCHANGED <<trip, session>>
    \/ PrepareForGpuAccess /\ UNCHANGED <<trip, session>>
    \/ MarkTimestampsModifiedFromCpu /\ UNCHANGED <<trip, session>>
    \/ MarkTimestampsModifiedFromGpu /\ UNCHANGED <<trip, session>>
    \/ MarkSamplesModifiedFromCpu /\ UNCHANGED <<trip, session>>
    \/ MarkSamplesModifiedFromGpu /\ UNCHANGED <<trip, session>>
    \/ (\E p \in TimestampPatterns : ProducerWriteTimestamps(p, "cpu")) /\ UNCHANGED <<trip, session>>
    \/ (\E p \in SamplePatterns : ProducerWriteSamples(p, "cpu")) /\ UNCHANGED <<trip, session>>

Spec == Init /\ [][Next]_vars

\* Any sequence of lifecycle operations and of the producer's publications
\* and metadata updates.
NextRevision ==
    \/ (\E size \in Sizes : Resize(size)) /\ UNCHANGED <<trip, session>>
    \/ clear /\ UNCHANGED <<trip, session>>
    \/ CopyTimestampsCall /\ UNCHANGED <<trip, session>>
    \/ PrepareForCpuAccess /\ UNCHANGED <<trip, session>>
    \/ PrepareForGpuAccess /\ UNCHANGED <<trip, session>>
    \/ MarkTimestampsModifiedFromCpu /\ UNCHANGED <<trip, session>>
    \/ MarkTimestampsModifiedFromGpu /\ UNCHANGED <<trip, session>>
    \/ MarkSamplesModifiedFromCpu /\ UNCHANGED <<trip, session>>
    \/ MarkSamplesModifiedFromGpu /\ UNCHANGED <<trip, session>>
    \/ ProducerSetMetadata /\ UNCHANGED <<trip, session>>
    \/ ProducerSetDensePacked /\ UNCHANGED <<trip, session>>
    \/ ProducerPublish /\ UNCHANGED <<trip, session>>

SpecRevision == Init /\ [][NextRevision]_vars

\* The round trip of a written buffer: a CPU-side write, the mark that goes
\* with it, PrepareForGpuAccess, PrepareForCpuAccess, and nothing in between.
\* trip.stage counts the steps of that sequence taken so far (1 .. 4).
Started(group, domain, p) ==
    IF domain = "cpu" THEN [group |-> group, stage |-> 1, pattern |-> p] ELSE NoTrip

Advanced(stage, group) ==
    IF trip.stage = stage /\ group \in {trip.group, "any"}
    THEN [trip EXCEPT !.stage = stage + 1]
    ELSE NoTrip

NextRoundTrip ==
    \/ (\E size \in Sizes : Resize(size)) /\ trip' = NoTrip /\ UNCHANGED session
    \/ clear /\ trip' = NoTrip /\ UNCHANGED session
    \/ CopyTimestampsCall /\ trip' = NoTrip /\ UNCHANGED session
    \/ PrepareForCpuAccess /\ trip' = Advanced(3, "any") /\ UNCHANGED session
    \/ PrepareForGpuAccess /\ trip' = Advanced(2, "any") /\ UNCHANGED session
    \/ MarkTimestampsModifiedFromCpu /\ trip' = Advanced(1, "timestamps") /\ UNCHANGED session
    \/ MarkTimestampsModifiedFromGpu /\ trip' = NoTrip /\ UNCHANGED session
    \/ MarkSamplesModifiedFromCpu /\ trip' = Advanced(1, "samples") /\ UNCHANGED session
    \/ MarkSamplesModifiedFromGpu /\ trip' = NoTrip /\ UNCHANGED session
    \/ \E p \in TimestampPatterns, d \in Domains :
          ProducerWriteTimestamps(p, d) /\ trip' = Started("timestamps", d, p) /\ UNCHANGED session
    \/ \E p \in SamplePatterns, d \in Domains :
          ProducerWriteSamples(p, d) /\ trip' = Started("samples", d, p) /\ UNCHANGED session

\* The round trip does not depend on the source of CopyTimestamps: one
\* full-length source is enough.
InitRoundTrip ==
    /\ Init
    /\ rhs = SourceWaveform("sparse", MaxLen)

SpecRoundTrip == InitRoundTrip /\ [][NextRoundTrip]_vars

Min(a, b) == IF a <= b THEN a ELSE b

\* One producer and a consumer that runs concurrently with it.  For every
\* mutation the producer resizes, writes the timestamps, writes the samples,
\* marks both groups modified from the CPU and then increments m_revision;
\* pc is its position.  The consumer compares m_revision with the value it
\* cached: if it is the same it reuses its cached results, if it differs it
\* reads the buffers and caches what it read.  Consumers only read, so they
\* influence neither the producer nor each other: one consumer stands for
\* each of them.
SamplesFor(p) == IF p = "dense" THEN "ones" ELSE "ramp"

\* The buffers hold the whole of mutation m, marked modified from the CPU.
Complete(m) ==
    /\ m_offsets.size = m.n /\ m_durations.size = m.n /\ m_samples.size = m.n
    /\ m_offsets.cpu = PatternOffsets(m.pattern, m.n)
    /\ m_durations.cpu = PatternDurations(m.pattern, m.n)
    /\ m_samples.cpu = PatternSamples(SamplesFor(m.pattern), m.n)
    /\ m_offsets.state = "CpuValid"
    /\ m_durations.state = "CpuValid"
    /\ m_samples.state = "CpuValid"

ProducerBegin(n, p) ==
    /\ pc = "idle"
    /\ Resize(n)
    /\ pc' = "resized"
    /\ cur' = [n |-> n, pattern |-> p]
    /\ cons' = IF cons.stage = "observed" THEN [cons EXCEPT !.overlapped = TRUE] ELSE cons
    /\ UNCHANGED trip

ProducerStepWriteTimestamps ==
    /\ pc = "resized"
    /\ ProducerWriteTimestamps(cur.pattern, "cpu")
    /\ pc' = "wroteTimestamps"
    /\ UNCHANGED <<cur, cons, trip>>

ProducerStepWriteSamples ==
    /\ pc = "wroteTimestamps"
    /\ ProducerWriteSamples(SamplesFor(cur.pattern), "cpu")
    /\ pc' = "wroteSamples"
    /\ UNCHANGED <<cur, cons, trip>>

ProducerStepMarkTimestamps ==
    /\ pc = "wroteSamples"
    /\ MarkTimestampsModifiedFromCpu
    /\ pc' = "markedTimestamps"
    /\ UNCHANGED <<cur, cons, trip>>

ProducerStepMarkSamples ==
    /\ pc = "markedTimestamps"
    /\ MarkSamplesModifiedFromCpu
    /\ pc' = "marked"
    /\ UNCHANGED <<cur, cons, trip>>

ProducerStepPublish ==
    /\ pc = "marked"
    /\ ProducerPublish
    /\ pc' = "idle"
    /\ cons' = [cons EXCEPT !.since = Min(cons.since + 1, RevisionModulus)]
    /\ UNCHANGED <<cur, trip>>

\* The consumer compares m_revision with the revision it cached.
ConsumerCheck ==
    /\ cons.stage # "observed"
    /\ cons' = IF m_revision # cons.cached
               THEN [cons EXCEPT !.cached = m_revision, !.stage = "observed",
                                 !.overlapped = (pc # "idle"), !.complete = FALSE,
                                 !.stale = FALSE, !.since = 0]
               ELSE [cons EXCEPT !.stage = "skipped", !.overlapped = (pc # "idle"),
                                 !.complete = FALSE,
                                 !.stale = (ConsumerView # cons.view)]
    /\ UNCHANGED <<kind, impl, metadata, buffers, rhs, lastOp, trip, pc, cur>>

\* The consumer reads the buffers the new revision announced.
ConsumerRead ==
    /\ cons.stage = "observed"
    /\ cons' = [cons EXCEPT !.stage = "read", !.view = ConsumerView,
                            !.quiet = ~cons.overlapped,
                            !.complete = (pc = "idle" /\ Complete(cur))]
    /\ UNCHANGED <<kind, impl, metadata, buffers, rhs, lastOp, trip, pc, cur>>

NextPublish ==
    \/ \E n \in Sizes \ {0}, p \in TimestampPatterns : ProducerBegin(n, p)
    \/ ProducerStepWriteTimestamps
    \/ ProducerStepWriteSamples
    \/ ProducerStepMarkTimestamps
    \/ ProducerStepMarkSamples
    \/ ProducerStepPublish
    \/ ConsumerCheck
    \/ ConsumerRead

\* The producer interface with samples is that of Waveform<S>.
InitPublish ==
    /\ Init
    /\ kind = "sampled"
    /\ rhs = SourceWaveform("sparse", MaxLen)

SpecPublish == InitPublish /\ [][NextPublish]_vars

\* A producer that declares the storage layout: it overwrites the whole range
\* of offsets and durations on the CPU and sets m_densePacked to what it
\* wrote.
ProducerWriteLayout(p) ==
    /\ m_offsets' = WriteTo(m_offsets, "cpu", PatternOffsets(p, m_offsets.size))
    /\ m_durations' = WriteTo(m_durations, "cpu", PatternDurations(p, m_durations.size))
    /\ m_densePacked' = (p = "dense")
    /\ lastOp' = Op("WriteLayout", 0)
    /\ UNCHANGED <<m_timescale, m_startTimestamp, m_startFemtoseconds, m_triggerPhase,
                   m_flags, m_revision, m_samples, rhs, kind, impl>>

\* Any sequence of lifecycle operations and of layout declarations.
NextDense ==
    \/ (\E size \in Sizes : Resize(size)) /\ UNCHANGED <<trip, session>>
    \/ clear /\ UNCHANGED <<trip, session>>
    \/ CopyTimestampsCall /\ UNCHANGED <<trip, session>>
    \/ PrepareForCpuAccess /\ UNCHANGED <<trip, session>>
    \/ PrepareForGpuAccess /\ UNCHANGED <<trip, session>>
    \/ MarkTimestampsModifiedFromCpu /\ UNCHANGED <<trip, session>>
    \/ MarkTimestampsModifiedFromGpu /\ UNCHANGED <<trip, session>>
    \/ MarkSamplesModifiedFromCpu /\ UNCHANGED <<trip, session>>
    \/ MarkSamplesModifiedFromGpu /\ UNCHANGED <<trip, session>>
    \/ (\E p \in TimestampPatterns : ProducerWriteLayout(p)) /\ UNCHANGED <<trip, session>>

SpecDense == Init /\ [][NextDense]_vars

\* Repeated preparation: trip counts the calls of the same PrepareFor*Access
\* made in a row (1, then 2 for every further one); trip.pattern is the
\* domain prepared for.
Prepared(domain) ==
    [group |-> "prepare",
     stage |-> IF trip.group = "prepare" /\ trip.pattern = domain THEN 2 ELSE 1,
     pattern |-> domain]

NextPrepare ==
    \/ (\E size \in Sizes : Resize(size)) /\ trip' = NoTrip /\ UNCHANGED session
    \/ clear /\ trip' = NoTrip /\ UNCHANGED session
    \/ CopyTimestampsCall /\ trip' = NoTrip /\ UNCHANGED session
    \/ PrepareForCpuAccess /\ trip' = Prepared("cpu") /\ UNCHANGED session
    \/ PrepareForGpuAccess /\ trip' = Prepared("gpu") /\ UNCHANGED session
    \/ MarkTimestampsModifiedFromCpu /\ trip' = NoTrip /\ UNCHANGED session
    \/ MarkTimestampsModifiedFromGpu /\ trip' = NoTrip /\ UNCHANGED session
    \/ MarkSamplesModifiedFromCpu /\ trip' = NoTrip /\ UNCHANGED session
    \/ MarkSamplesModifiedFromGpu /\ trip' = NoTrip /\ UNCHANGED session
    \/ \E p \in TimestampPatterns, d \in Domains :
          ProducerWriteTimestamps(p, d) /\ trip' = NoTrip /\ UNCHANGED session
    \/ \E p \in SamplePatterns, d \in Domains :
          ProducerWriteSamples(p, d) /\ trip' = NoTrip /\ UNCHANGED session

SpecPrepare == InitRoundTrip /\ [][NextPrepare]_vars

(***************************************************************************)
(* Properties.                                                             *)
(***************************************************************************)

\* What a reader sees on the CPU after preparing the buffer for CPU access.
CpuVisible(b) == BufPrepareForCpuAccess(b).cpu

Sampled == kind = "sampled"

\* C1: in every reachable state offsets and durations have the same length
\* and, for a Waveform<S>, the samples have that length too.
C1_LengthsAgree ==
    /\ m_offsets.size = m_durations.size
    /\ Sampled => m_samples.size = m_offsets.size

\* A Waveform<S> of full length on which CopyTimestamps from a shorter source
\* has just run.
C1_Witness ==
    /\ Sampled
    /\ lastOp.op = "CopyTimestamps"
    /\ m_offsets.size = MaxLen
    /\ m_samples.size = MaxLen
    /\ rhs.m_offsets.size < MaxLen

\* C2: right after Resize(n) offsets and durations have length n and, for a
\* Waveform<S>, so have the samples.
C2_ResizeSetsLengths ==
    lastOp.op = "Resize" =>
        /\ m_offsets.size = lastOp.arg
        /\ m_durations.size = lastOp.arg
        /\ Sampled => m_samples.size = lastOp.arg

\* Resize(1) on a Waveform<S> that held written samples before the call.
C2_Witness ==
    /\ Sampled
    /\ lastOp.op = "Resize"
    /\ lastOp.arg = 1
    /\ m_samples.size = 1
    /\ m_samples.cpu = PatternSamples("ramp", 1)

\* C3: PrepareForCpuAccess on a Waveform<S> leaves each of the three buffers
\* CPU-valid and changes no buffer's GPU validity; PrepareForGpuAccess leaves
\* each GPU-valid and changes no buffer's CPU validity.
C3_PrepareCoversAllBuffers ==
    [][/\ (Sampled /\ lastOp'.op = "PrepareForCpuAccess") =>
              /\ CpuValidIn(m_offsets') /\ CpuValidIn(m_durations') /\ CpuValidIn(m_samples')
              /\ GpuValidIn(m_offsets') = GpuValidIn(m_offsets)
              /\ GpuValidIn(m_durations') = GpuValidIn(m_durations)
              /\ GpuValidIn(m_samples') = GpuValidIn(m_samples)
       /\ (Sampled /\ lastOp'.op = "PrepareForGpuAccess") =>
              /\ GpuValidIn(m_offsets') /\ GpuValidIn(m_durations') /\ GpuValidIn(m_samples')
              /\ CpuValidIn(m_offsets') = CpuValidIn(m_offsets)
              /\ CpuValidIn(m_durations') = CpuValidIn(m_durations)
              /\ CpuValidIn(m_samples') = CpuValidIn(m_samples)]_vars

\* PrepareForCpuAccess has run on a Waveform<S> whose samples were GPU-valid
\* while its timestamps were valid on the CPU only.
C3_Witness ==
    /\ Sampled
    /\ lastOp.op = "PrepareForCpuAccess"
    /\ m_samples.size = MaxLen
    /\ m_samples.state = "BothValid"
    /\ m_offsets.state = "CpuValid"
    /\ m_durations.state = "CpuValid"

\* C4: on a Waveform<S>, after a CPU-side write, the mark for the written
\* buffers, PrepareForGpuAccess and PrepareForCpuAccess, with nothing in
\* between, the written buffers hold the written values on the CPU and on
\* the GPU.
C4_RoundTripKeepsWritten ==
    (Sampled /\ trip.stage = 4) =>
        IF trip.group = "timestamps"
        THEN /\ m_offsets.cpu = PatternOffsets(trip.pattern, m_offsets.size)
             /\ m_offsets.gpu = PatternOffsets(trip.pattern, m_offsets.size)
             /\ m_durations.cpu = PatternDurations(trip.pattern, m_durations.size)
             /\ m_durations.gpu = PatternDurations(trip.pattern, m_durations.size)
        ELSE /\ m_samples.cpu = PatternSamples(trip.pattern, m_samples.size)
             /\ m_samples.gpu = PatternSamples(trip.pattern, m_samples.size)

\* A completed round trip of full-length timestamps on a Waveform<S>.
C4_Witness ==
    /\ Sampled
    /\ trip.stage = 4
    /\ trip.group = "timestamps"
    /\ trip.pattern = "sparse"
    /\ m_offsets.size = MaxLen
    /\ m_offsets.state = "BothValid"

\* C5: MarkTimestampsModifiedFromCpu (FromGpu) on any waveform leaves offsets
\* and durations valid in the named domain only and does not touch the
\* samples.
C5_MarkTimestampsForwards ==
    [][/\ lastOp'.op = "MarkTimestampsModifiedFromCpu" =>
              /\ m_offsets'.state = "CpuValid"
              /\ m_durations'.state = "CpuValid"
              /\ m_samples' = m_samples
       /\ lastOp'.op = "MarkTimestampsModifiedFromGpu" =>
              /\ m_offsets'.state = "GpuValid"
              /\ m_durations'.state = "GpuValid"
              /\ m_samples' = m_samples]_vars

\* C6: MarkSamplesModifiedFromCpu (FromGpu) on a Waveform<S> leaves the
\* samples valid in the named domain only, with their length and contents as
\* they were, and leaves offsets and durations untouched.
C6_MarkSamplesOnlySamples ==
    [][/\ (Sampled /\ lastOp'.op = "MarkSamplesModifiedFromCpu") =>
              /\ m_samples' = [m_samples EXCEPT !.state = "CpuValid"]
              /\ m_offsets' = m_offsets
              /\ m_durations' = m_durations
       /\ (Sampled /\ lastOp'.op = "MarkSamplesModifiedFromGpu") =>
              /\ m_samples' = [m_samples EXCEPT !.state = "GpuValid"]
              /\ m_offsets' = m_offsets
              /\ m_durations' = m_durations]_vars

\* MarkSamplesModifiedFromGpu has run on a Waveform<S> whose timestamps are
\* valid in both domains.
C6_Witness ==
    /\ Sampled
    /\ lastOp.op = "MarkSamplesModifiedFromGpu"
    /\ m_samples.size = MaxLen
    /\ m_samples.state = "GpuValid"
    /\ m_offsets.state = "BothValid"
    /\ m_durations.state = "BothValid"

\* C7: CopyTimestamps into a waveform already resized to the source's length
\* leaves its offsets and durations equal to the source's, its samples as
\* they were, and the source as it was.
C7_CopyTimestampsCopies ==
    [][(/\ lastOp'.op = "CopyTimestamps"
        /\ m_offsets.size = rhs.m_offsets.size
        /\ m_durations.size = rhs.m_durations.size) =>
           /\ rhs' = rhs
           /\ CpuVisible(m_offsets') = CpuVisible(rhs.m_offsets)
           /\ CpuVisible(m_durations') = CpuVisible(rhs.m_durations)
           /\ m_samples' = m_samples]_vars

\* CopyTimestamps has run on a full-length Waveform<S> with written samples
\* and a source of the same length.
C7_Witness ==
    /\ Sampled
    /\ lastOp.op = "CopyTimestamps"
    /\ rhs.m_offsets.size = MaxLen
    /\ m_offsets.size = MaxLen
    /\ m_offsets.cpu = PatternOffsets("sparse", MaxLen)
    /\ m_durations.cpu = PatternDurations("sparse", MaxLen)
    /\ m_samples.cpu = PatternSamples("ramp", MaxLen)

C10_MutationIncrementsRevision ==
    [][(/\ lastOp'.op \in {"Resize", "clear", "CopyTimestamps"}
        /\ buffers' # buffers) =>
           m_revision' > m_revision]_vars

\* C10, amended: a Resize, clear or CopyTimestamps that changes a length or
\* the contents of a buffer leaves m_revision as it was.
C10_MutationKeepsRevision ==
    [][(/\ lastOp'.op \in {"Resize", "clear", "CopyTimestamps"}
        /\ buffers' # buffers) =>
           m_revision' = m_revision]_vars

\* CopyTimestamps has filled a resized waveform after one publication and
\* the revision is still the published one.
C10_Witness ==
    /\ lastOp.op = "CopyTimestamps"
    /\ m_revision = 1
    /\ m_offsets.size = MaxLen
    /\ m_offsets.cpu = PatternOffsets("sparse", MaxLen)

DensePacked ==
    /\ \A i \in 1 .. Len(m_offsets.cpu) : m_offsets.cpu[i] = i - 1
    /\ \A i \in 1 .. Len(m_durations.cpu) : m_durations.cpu[i] = 1

RhsDensePacked ==
    /\ rhs.m_offsets.cpu = PatternOffsets("dense", rhs.m_offsets.size)
    /\ rhs.m_durations.cpu = PatternDurations("dense", rhs.m_durations.size)

C14_ClearEmptiesBuffers ==
    lastOp.op = "clear" =>
        /\ m_offsets.size = 0 /\ Len(m_offsets.cpu) = 0 /\ Len(m_offsets.gpu) = 0
        /\ m_durations.size = 0 /\ Len(m_durations.cpu) = 0 /\ Len(m_durations.gpu) = 0
        /\ Sampled =>
              m_samples.size = 0 /\ Len(m_samples.cpu) = 0 /\ Len(m_samples.gpu) = 0

\* clear() on a Waveform<S> of full length.
C14_Witness ==
    /\ Sampled
    /\ lastOp = Op("clear", MaxLen)
    /\ m_offsets.size = 0
    /\ m_durations.size = 0
    /\ m_samples.size = 0

\* One buffer across a preparation for CPU access: a GPU-only buffer is
\* copied to the CPU and is then valid on both sides, a buffer valid on the
\* CPU is left as it is.
LazyToCpu(before, after) ==
    /\ before.state = "GpuValid" =>
          after = [before EXCEPT !.cpu = before.gpu, !.state = "BothValid"]
    /\ before.state \in {"CpuValid", "BothValid"} => after = before

LazyToGpu(before, after) ==
    /\ before.state = "CpuValid" =>
          after = [before EXCEPT !.gpu = before.cpu, !.state = "BothValid"]
    /\ before.state \in {"GpuValid", "BothValid"} => after = before

\* C15: PrepareForCpuAccess copies a buffer to the CPU only when it is valid
\* on the GPU alone and leaves it alone when it is valid on the CPU;
\* PrepareForGpuAccess mirrors it; the second of two calls in a row changes
\* no buffer.
C15_PrepareLazyIdempotent ==
    [][/\ lastOp'.op = "PrepareForCpuAccess" =>
             /\ LazyToCpu(m_offsets, m_offsets')
             /\ LazyToCpu(m_durations, m_durations')
             /\ Sampled => LazyToCpu(m_samples, m_samples')
       /\ lastOp'.op = "PrepareForGpuAccess" =>
             /\ LazyToGpu(m_offsets, m_offsets')
             /\ LazyToGpu(m_durations, m_durations')
             /\ Sampled => LazyToGpu(m_samples, m_samples')
       /\ trip'.stage = 2 => buffers' = buffers]_vars

\* A Waveform<S> written on the GPU, after PrepareForCpuAccess twice in a row.
C15_Witness ==
    /\ Sampled
    /\ trip = [group |-> "prepare", stage |-> 2, pattern |-> "cpu"]
    /\ m_samples.state = "BothValid"
    /\ m_samples.cpu = PatternSamples("ramp", MaxLen)
    /\ m_samples.gpu = PatternSamples("ramp", MaxLen)
    /\ m_offsets.state = "BothValid"
    /\ m_offsets.cpu = PatternOffsets("sparse", MaxLen)

LifecycleOps ==
    {"Resize", "clear", "CopyTimestamps", "PrepareForCpuAccess", "PrepareForGpuAccess",
     "MarkTimestampsModifiedFromCpu", "MarkTimestampsModifiedFromGpu",
     "MarkSamplesModifiedFromCpu", "MarkSamplesModifiedFromGpu"}

\* C16: the metadata are all zero or false right after construction, and no
\* lifecycle operation changes any of them; CopyTimestamps takes nothing of
\* the source's metadata.
C16_LifecycleKeepsMetadata ==
    /\ [](lastOp.op = "ctor" =>
            /\ m_timescale = 0 /\ m_startTimestamp = 0 /\ m_startFemtoseconds = 0
            /\ m_triggerPhase = 0 /\ m_densePacked = FALSE /\ m_flags = 0
            /\ m_revision = 0)
    /\ [][lastOp'.op \in LifecycleOps => metadata' = metadata]_vars

\* CopyTimestamps from a sparse source onto a waveform whose header, layout
\* flag and revision the producer has set.
C16_Witness ==
    /\ lastOp.op = "CopyTimestamps"
    /\ m_offsets.cpu = PatternOffsets("sparse", MaxLen)
    /\ m_timescale = 100 /\ rhs.m_timescale # m_timescale
    /\ m_flags = WAVEFORM_CLIPPING
    /\ m_densePacked /\ ~rhs.m_densePacked
    /\ m_revision = 1 /\ rhs.m_revision # m_revision

====
